---- MODULE Spec2Model ----
(***************************************************************************)
(* Model of src/pyexam.py: the game state of a narrated role-playing       *)
(* session (Character, GameState), the narration engine (NarrationEngine)  *)
(* with its remote and local strategies, and the read loop run_cli.        *)
(*                                                                         *)
(* Texts are strings and are computed character by character, as the       *)
(* Python string operations compute them.  A string holds the characters   *)
(* U+0000 to U+00FF, and the character classes of the string operations    *)
(* are given over this range.  The EM DASH (U+2014) of src/pyexam.py:57 is *)
(* outside it and is written EmDash, one character that is neither a       *)
(* hyphen, nor whitespace, nor a word character, as U+2014 is none of them.*)
(***************************************************************************)
EXTENDS Integers, Sequences, FiniteSets, TLC

(***************************************************************************)
(* Bounds of the model.                                                    *)
(***************************************************************************)
MaxScena == 3
MaxLines == 3

(***************************************************************************)
(* Python string builtins used by the source.                              *)
(***************************************************************************)
None == "<None>"

Char(s, i) == SubSeq(s, i, i)

Min(S) == CHOOSE x \in S : \A y \in S : x <= y

\* the first position in lo..hi of s whose character is in the set cs
\* (inside = TRUE) or is not in it (inside = FALSE); 0 when there is none
RECURSIVE first_pos(_, _, _, _, _)
first_pos(s, cs, inside, lo, hi) ==
  IF lo > hi THEN 0
  ELSE IF lo = hi THEN (IF (Char(s, lo) \in cs) = inside THEN lo ELSE 0)
  ELSE LET mid == (lo + hi) \div 2
           left == first_pos(s, cs, inside, lo, mid)
       IN IF left # 0 THEN left ELSE first_pos(s, cs, inside, mid + 1, hi)

\* the last such position; 0 when there is none
RECURSIVE last_pos(_, _, _, _, _)
last_pos(s, cs, inside, lo, hi) ==
  IF lo > hi THEN 0
  ELSE IF lo = hi THEN (IF (Char(s, lo) \in cs) = inside THEN lo ELSE 0)
  ELSE LET mid == (lo + hi) \div 2
           right == last_pos(s, cs, inside, mid + 1, hi)
       IN IF right # 0 THEN right ELSE last_pos(s, cs, inside, lo, mid)

Max(a, b) == IF a >= b THEN a ELSE b

\* sep.join(parts[lo..hi]), by halves
RECURSIVE join_range(_, _, _, _)
join_range(parts, sep, lo, hi) ==
  IF lo > hi THEN ""
  ELSE IF lo = hi THEN parts[lo]
  ELSE LET mid == (lo + hi) \div 2
       IN join_range(parts, sep, lo, mid) \o sep
            \o join_range(parts, sep, mid + 1, hi)

\* sep.join(parts)
join(parts, sep) == join_range(parts, sep, 1, Len(parts))

\* the whitespace characters without an escape in a string: U+000B,
\* U+001C to U+001F, U+0085 and U+00A0
VT == ""
FS == ""
GS == ""
RS == ""
US == ""
NEL == ""
NBSP == " "

\* the characters of str.isspace(), which str.strip() removes
Whitespace == {" ", "\t", "\n", "\r", "\f", VT, FS, GS, RS, US, NEL, NBSP}

\* str.isspace for one character
IsSpace(c) == c \in Whitespace

lstrip(s) ==
  LET k == first_pos(s, Whitespace, FALSE, 1, Len(s))
  IN IF k = 0 THEN "" ELSE SubSeq(s, k, Len(s))

rstrip(s) == SubSeq(s, 1, last_pos(s, Whitespace, FALSE, 1, Len(s)))

\* str.strip()
strip(s) == rstrip(lstrip(s))

\* the characters str.lower() changes, and what it changes them to
UpperCase == "ABCDEFGHIJKLMNOPQRSTUVWXYZÀÁÂÃÄÅÆÇÈÉÊËÌÍÎÏÐÑÒÓÔÕÖØÙÚÛÜÝÞ"
LowerCase == "abcdefghijklmnopqrstuvwxyzàáâãäåæçèéêëìíîïðñòóôõöøùúûüýþ"

lower_char(c) ==
  IF \E i \in 1..Len(UpperCase) : Char(UpperCase, i) = c
  THEN Char(LowerCase, CHOOSE i \in 1..Len(UpperCase) : Char(UpperCase, i) = c)
  ELSE c

\* str.lower()
lower(s) == join([i \in 1..Len(s) |-> lower_char(Char(s, i))], "")

Digits == "0123456789"

\* str(int), as the f-strings format an integer
RECURSIVE str(_)
str(n) ==
  IF n < 0 THEN "-" \o str(-n)
  ELSE IF n < 10 THEN Char(Digits, n + 1)
  ELSE str(n \div 10) \o Char(Digits, (n % 10) + 1)

\* str.find(c) for a one-character c, 1-based; 0 when absent
find(s, c) == first_pos(s, {c}, TRUE, 1, Len(s))

\* the parts of s from position start on, cut at the positions in at
RECURSIVE parts_from(_, _, _)
parts_from(s, at, start) ==
  LET rest == {p \in at : p >= start} IN
  IF rest = {} THEN <<SubSeq(s, start, Len(s))>>
  ELSE <<SubSeq(s, start, Min(rest) - 1)>> \o parts_from(s, rest, Min(rest) + 1)

\* str.split(c) for a one-character separator
split(s, c) == parts_from(s, {i \in 1..Len(s) : Char(s, i) = c}, 1)

\* os.linesep of a POSIX build
linesep == "\n"

(***************************************************************************)
(* textwrap.dedent                                                         *)
(***************************************************************************)
\* the leading run of blanks and tabs of a line
leading_whitespace(line) ==
  LET k == first_pos(line, {" ", "\t"}, FALSE, 1, Len(line))
  IN IF k = 0 THEN line ELSE SubSeq(line, 1, k - 1)

\* a line of blanks and tabs only (or empty)
whitespace_only(line) == leading_whitespace(line) = line

\* the longest common prefix of a non-empty set of strings
common_prefix(S) ==
  LET shortest == Min({Len(x) : x \in S})
      agree(k) == \A x, y \in S : SubSeq(x, 1, k) = SubSeq(y, 1, k)
      k == CHOOSE j \in 0..shortest :
             agree(j) /\ \A i \in (j + 1)..shortest : ~agree(i)
  IN SubSeq(CHOOSE x \in S : TRUE, 1, k)

dedent(text) ==
  LET lines == split(text, "\n")
      norm == [i \in 1..Len(lines) |->
                 IF whitespace_only(lines[i]) THEN "" ELSE lines[i]]
      indents == {leading_whitespace(norm[i]) :
                    i \in {j \in 1..Len(norm) : norm[j] # ""}}
      margin == IF indents = {} THEN "" ELSE common_prefix(indents)
      cut == [i \in 1..Len(norm) |->
                IF norm[i] = "" THEN ""
                ELSE SubSeq(norm[i], Len(margin) + 1, Len(norm[i]))]
  IN join(cut, "\n")

(***************************************************************************)
(* textwrap.fill(text, width) with the defaults of TextWrapper:            *)
(* expand_tabs, replace_whitespace, drop_whitespace, break_long_words,     *)
(* break_on_hyphens.                                                       *)
(***************************************************************************)
RECURSIVE spaces(_)
spaces(n) == IF n <= 0 THEN "" ELSE " " \o spaces(n - 1)

\* str.expandtabs(8): a tab fills up to the next multiple of 8 of the
\* column, which restarts after a newline or a carriage return (and is a
\* multiple of 8 after a tab)
expandtabs(s) ==
  LET col(i) == i - 1 - last_pos(s, {"\t", "\n", "\r"}, TRUE, 1, i - 1)
  IN join([i \in 1..Len(s) |->
             IF Char(s, i) = "\t"
             THEN spaces(8 - (col(i) % 8))
             ELSE Char(s, i)], "")

\* textwrap._whitespace, "\t\n\x0b\x0c\r "
textwrap_whitespace == {"\t", "\n", VT, "\f", "\r", " "}

\* str.translate(unicode_whitespace_trans): every character of
\* textwrap._whitespace becomes a blank
replace_whitespace(s) ==
  join([i \in 1..Len(s) |->
          IF Char(s, i) \in textwrap_whitespace THEN " " ELSE Char(s, i)], "")

\* TextWrapper._munge_whitespace
munge_whitespace(text) == replace_whitespace(expandtabs(text))

\* the character of s at position i, "" outside s
At(s, i) == IF i >= 1 /\ i <= Len(s) THEN SubSeq(s, i, i) ELSE ""

\* the character classes of TextWrapper.wordsep_re:
\* \w, letter [^\d\W], and word_punct [\w!"'&.,?]
WordChars ==
  "0123456789ABCDEFGHIJKLMNOPQRSTUVWXYZ_abcdefghijklmnopqrstuvwxyz"
    \o "ª²³µ¹º¼½¾ÀÁÂÃÄÅÆÇÈÉÊËÌÍÎÏÐÑÒÓÔÕÖØÙÚÛÜÝÞß"
    \o "àáâãäåæçèéêëìíîïðñòóôõöøùúûüýþÿ"

word == {Char(WordChars, i) : i \in 1..Len(WordChars)}

letter == word \ {Char(Digits, i) : i \in 1..Len(Digits)}

word_punct == word \cup {"!", "\"", "'", "&", ".", ",", "?"}

\* the last position of the run of hyphens that holds position i
run_end(s, i) ==
  LET k == first_pos(s, {"-"}, FALSE, i, Len(s))
  IN IF k = 0 THEN Len(s) ELSE k - 1

\* the first position of the run of hyphens that holds position i
run_start(s, i) == last_pos(s, {"-"}, FALSE, 1, i) + 1

\* wordsep_re, "em-dash between words": two hyphens or more begin at i,
\* after a character of word_punct and before a character of \w
em_dash_at(s, i) ==
  /\ At(s, i) = "-"
  /\ At(s, i + 1) = "-"
  /\ At(s, i - 1) \in word_punct
  /\ At(s, run_end(s, i) + 1) \in word

\* wordsep_re, "hyphenated word": the hyphen at i ends a chunk when it
\* follows two letters, or letter-hyphen-letter, and is followed by a
\* letter, an optional hyphen and a letter
hyphen_break(s, i) ==
  /\ At(s, i) = "-"
  /\ \/ At(s, i - 2) \in letter /\ At(s, i - 1) \in letter
     \/ At(s, i - 3) \in letter /\ At(s, i - 2) = "-" /\ At(s, i - 1) \in letter
  /\ At(s, i + 1) \in letter
  /\ \/ At(s, i + 2) \in letter
     \/ At(s, i + 2) = "-" /\ At(s, i + 3) \in letter

\* a match of wordsep_re ends at position i: the end of a run of
\* whitespace (of textwrap._whitespace); the end of a word; the hyphen of a hyphenated word; the
\* character before an em-dash; the last hyphen of an em-dash
chunk_end(s, i) ==
  IF At(s, i) \in textwrap_whitespace
  THEN At(s, i + 1) \notin textwrap_whitespace
  ELSE \/ i = Len(s)
       \/ At(s, i + 1) \in textwrap_whitespace
       \/ hyphen_break(s, i)
       \/ em_dash_at(s, i + 1)
       \/ /\ At(s, i) = "-"
          /\ At(s, i + 1) \in word
          /\ em_dash_at(s, run_start(s, i))

\* the matches of wordsep_re in s[lo..hi], by halves: a match that spans
\* the middle is put together again
RECURSIVE split_range(_, _, _)
split_range(s, lo, hi) ==
  IF lo > hi THEN <<>>
  ELSE IF lo = hi THEN <<Char(s, lo)>>
  ELSE LET mid == (lo + hi) \div 2
           left == split_range(s, lo, mid)
           right == split_range(s, mid + 1, hi)
       IN IF ~chunk_end(s, mid)
          THEN SubSeq(left, 1, Len(left) - 1)
                 \o <<left[Len(left)] \o right[1]>> \o Tail(right)
          ELSE left \o right

\* TextWrapper._split: the non-empty pieces of wordsep_re.split(text)
split_chunks(s) == split_range(s, 1, Len(s))

\* sum(map(len, chunks[lo..hi])), by halves
RECURSIVE len_range(_, _, _)
len_range(chunks, lo, hi) ==
  IF lo > hi THEN 0
  ELSE IF lo = hi THEN Len(chunks[lo])
  ELSE LET mid == (lo + hi) \div 2
       IN len_range(chunks, lo, mid) + len_range(chunks, mid + 1, hi)

total_len(chunks) == len_range(chunks, 1, Len(chunks))

\* how many leading chunks the inner loop of _wrap_chunks moves to the
\* current line: it stops at the first chunk that does not fit
\* (the largest n in lo..hi whose first n chunks fit, found by bisection)
RECURSIVE fit(_, _, _, _)
fit(chunks, room, lo, hi) ==
  IF lo >= hi THEN lo
  ELSE LET mid == (lo + hi + 1) \div 2
       IN IF len_range(chunks, 1, mid) <= room
          THEN fit(chunks, room, mid, hi)
          ELSE fit(chunks, room, lo, mid - 1)

take_count(chunks, room) == fit(chunks, room, 0, Len(chunks))

\* what _wrap_chunks raises for a width that is not positive
ValueError == "<raise ValueError>"

\* TextWrapper._wrap_chunks, one line per step
RECURSIVE wrap_chunks(_, _, _)
wrap_chunks(chunks, lines, width) ==
  IF width <= 0 THEN ValueError
  ELSE IF chunks = <<>> THEN lines
  ELSE
    LET c0 == IF strip(chunks[1]) = "" /\ lines # <<>>
              THEN Tail(chunks) ELSE chunks
        n == take_count(c0, width)
        cur1 == SubSeq(c0, 1, n)
        rest1 == SubSeq(c0, n + 1, Len(c0))
        long == rest1 # <<>> /\ Len(rest1[1]) > width
        \* _handle_long_word
        space_left == IF width < 1 THEN 1 ELSE width - total_len(cur1)
        \* chunk.rfind("-", 0, space_left), 1-based
        hyphen == last_pos(rest1[1], {"-"}, TRUE, 1, space_left)
        end == IF /\ Len(rest1[1]) > space_left
                  /\ hyphen > 1
                  /\ first_pos(rest1[1], {"-"}, FALSE, 1, hyphen - 1) # 0
               THEN hyphen ELSE space_left
        cur2 == IF long
                THEN Append(cur1, SubSeq(rest1[1], 1, end))
                ELSE cur1
        rest2 == IF long
                 THEN <<SubSeq(rest1[1], end + 1, Len(rest1[1]))>>
                        \o Tail(rest1)
                 ELSE rest1
        cur3 == IF cur2 # <<>> /\ strip(cur2[Len(cur2)]) = ""
                THEN SubSeq(cur2, 1, Len(cur2) - 1) ELSE cur2
    IN wrap_chunks(rest2,
                   IF cur3 # <<>> THEN Append(lines, join(cur3, "")) ELSE lines,
                   width)

\* TextWrapper.wrap
wrap(text, width) == wrap_chunks(split_chunks(munge_whitespace(text)), <<>>, width)

\* textwrap.fill
fill(text, width) ==
  IF width <= 0 THEN ValueError ELSE join(wrap(text, width), "\n")

(***************************************************************************)
(* Character                                                               *)
(***************************************************************************)
\* apply_damage without the clamp at zero
apply_damage_unclamped(punti_ferita, amount) == punti_ferita - amount

\* Character.apply_damage: the new value of punti_ferita
apply_damage(punti_ferita, amount) == Max(punti_ferita - amount, 0)

\* is_conscious with >= in place of >
is_conscious_at_zero(punti_ferita) == punti_ferita >= 0

\* Character.is_conscious
is_conscious(punti_ferita) == punti_ferita > 0

(***************************************************************************)
(* GameState                                                               *)
(***************************************************************************)
\* the separator of src/pyexam.py:57, U+2014, in ASCII
EmDash == "~"

party_line(pg) ==
  "- " \o pg.name \o " (" \o pg.razza \o " " \o pg.classe \o " liv. "
       \o str(pg.livello) \o ") " \o EmDash \o " " \o str(pg.punti_ferita) \o " PF"

party_lines(party) == [i \in 1..Len(party) |-> party_line(party[i])]

\* the indentation of the triple-quoted templates in the source
Indent == spaces(12)

\* snapshot without the final strip()
snapshot_unstripped(st) ==
  dedent(
    "\n"
    \o Indent \o "Scena: " \o str(st.scena_corrente) \o "\n"
    \o Indent \o "Luogo: " \o st.location \o "\n"
    \o Indent \o "Party:" \o "\n"
    \o Indent \o (IF st.party # <<>>
                  THEN join(party_lines(st.party), linesep)
                  ELSE "Nessun membro") \o "\n"
    \o Indent)

\* GameState.snapshot
snapshot(st) ==
  strip(dedent(
    "\n"
    \o Indent \o "Scena: " \o str(st.scena_corrente) \o "\n"
    \o Indent \o "Luogo: " \o st.location \o "\n"
    \o Indent \o "Party:" \o "\n"
    \o Indent \o (IF st.party # <<>>
                  THEN join(party_lines(st.party), linesep)
                  ELSE "Nessun membro") \o "\n"
    \o Indent))

\* advance_scene that skips a scene
advance_scene_by_two(scena_corrente) == scena_corrente + 2

\* GameState.advance_scene: the new value of scena_corrente
advance_scene(scena_corrente) == scena_corrente + 1

(***************************************************************************)
(* NarrationEngine                                                         *)
(***************************************************************************)
\* NarrationEngine._build_prompt
build_prompt(action, st) ==
  strip(dedent(
    "\n"
    \o Indent \o "Sei un Dungeon Master esperto. Descrivi la prossima scena." \o "\n"
    \o "\n"
    \o Indent \o "Stato attuale:" \o "\n"
    \o Indent \o snapshot(st) \o "\n"
    \o "\n"
    \o Indent \o "Istruzioni:" \o "\n"
    \o Indent \o "- Rispondi in 4-6 frasi concise." \o "\n"
    \o Indent \o "- Mantieni il tono fantasy medioevale." \o "\n"
    \o Indent \o "- Non introdurre modifiche alle regole, solo narra l'esito." \o "\n"
    \o "\n"
    \o Indent \o "Azione del giocatore: " \o action \o "\n"
    \o Indent))

outcomes ==
  << "un incontro imprevisto con una creatura errante",
     "un indizio nascosto inciso su una pietra consunta",
     "una trappola che scatta con un suono metallico",
     "un PNG che chiede aiuto con tono disperato",
     "una stanza vuota che nasconde un passaggio segreto" >>

FillWidth == 88

\* the paragraph _fallback_narration returns, wrapped
fallback_text(action, scena, consequence, location) ==
  fill("Mentre reagite a '" \o action \o "', la scena " \o str(scena)
         \o " si apre: " \o consequence \o ". Il party resta a " \o location
         \o ", ma l'atmosfera " \o "cambia e vi prepara alla prossima scelta.",
       FillWidth)

\* the inputs of the model: locations, and the action texts given to
\* narrate: a word, a sentence long enough to reach the wrapping column, a
\* text with a tab, a sentence whose hyphenated word reaches the wrapping
\* column, and the actions typed at the prompt of run_cli
Locations == {"Crypt", "Cripte di Smeraldo"}

LongAction ==
  "apro con cautela la porta di ferro e poi illumino il corridoio con la torcia accesa"

HyphenAction ==
  "forzo il lucchetto della grata e scendo con la torcia nel sotto-passaggio"

Actions == {"cerca", LongAction, "colpisco\til goblin", HyphenAction}

\* a line of whitespace only
BlankLine == " \t\f" \o VT \o FS \o NBSP

\* the lines typed at the prompt of run_cli
RawLines == {"quit", " Exit \r", "", BlankLine, " cerca ", "quit ora"}

Consequences == {outcomes[i] : i \in 1..Len(outcomes)}

\* fallback_text over the inputs of the model, evaluated once
FallbackTexts ==
  [k \in (Actions \cup {strip(l) : l \in RawLines})
           \X (1..(MaxScena + 1)) \X Consequences \X Locations |->
     fallback_text(k[1], k[2], k[3], k[4])] @@ <<>>

\* _fallback_narration that does not call advance_scene
fallback_narration_same_scene(action, st, consequence) ==
  [state |-> st,
   ret |-> fallback_text(action, st.scena_corrente + 1, consequence, st.location)]

\* _fallback_narration that formats the text before it advances the scene
fallback_narration_stale_number(action, st, consequence) ==
  [state |-> [st EXCEPT !.scena_corrente = st.scena_corrente + 1],
   ret |-> fallback_text(action, st.scena_corrente, consequence, st.location)]

\* NarrationEngine._fallback_narration: the state after the call and the
\* text returned, for the outcome random.choice selects
fallback_narration(action, st, consequence) ==
  LET after == [st EXCEPT !.scena_corrente = advance_scene(st.scena_corrente)]
      k == <<action, after.scena_corrente, consequence, after.location>>
  IN [state |-> after,
      ret |-> IF k \in DOMAIN FallbackTexts THEN FallbackTexts[k]
               ELSE fallback_text(k[1], k[2], k[3], k[4])]

\* the system prompt __main__ gives the engine
system_prompt ==
  "Sei un Dungeon Master che segue fedelmente lo stato di gioco fornito. "
  \o "Narra con toni fantasy classici, mantieni la coerenza e non barare con le regole."

\* what the backend does with a request: it answers with a text, or the call
\* raises (network, authentication, malformed response)
BackendError == "<raise>"
Replies == {"La porta cede con un lungo cigolio.", BackendError}

\* NarrationEngine._call_model: the requests sent, and the content of the
\* first choice or the exception the call raises
call_model(prompt, reply) ==
  [sent |-> <<[model |-> "gpt-5.1", system |-> system_prompt, user |-> prompt]>>,
   ret |-> IF reply = BackendError THEN None ELSE reply,
   raised |-> reply = BackendError]

\* narrate that answers a backend failure with the local generator
narrate_silent_fallback(client, action, st, consequence, reply) ==
  IF client # None /\ reply # BackendError
  THEN call_model(build_prompt(action, st), reply)
         @@ [state |-> st, consequence |-> None]
  ELSE fallback_narration(action, st, outcomes[1])
         @@ [raised |-> FALSE, sent |-> <<>>, consequence |-> outcomes[1]]

\* narrate that advances the scene on the remote path too
narrate_advancing(client, action, st, consequence, reply) ==
  IF client # None
  THEN call_model(build_prompt(action, st), reply)
         @@ [state |-> [st EXCEPT !.scena_corrente = st.scena_corrente + 1],
             consequence |-> None]
  ELSE fallback_narration(action, st, consequence)
         @@ [raised |-> FALSE, sent |-> <<>>, consequence |-> consequence]

\* NarrationEngine.narrate: the state after the call, the text returned (or
\* the exception raised), the requests sent to the backend and the outcome
\* drawn by the local generator
narrate(client, action, st, consequence, reply) ==
  IF client # None
  THEN call_model(build_prompt(action, st), reply)
         @@ [state |-> st, consequence |-> None]
  ELSE fallback_narration(action, st, consequence)
         @@ [raised |-> FALSE, sent |-> <<>>, consequence |-> consequence]

(***************************************************************************)
(* The session: a GameState, an engine, and the calls made on them.        *)
(***************************************************************************)
VARIABLES
  state,            \* the GameState: location, party, scena_corrente
  client,           \* NarrationEngine.client: None or a backend handle
  last,             \* the last call: operation, arguments, state before, result
  scena_iniziale,   \* scena_corrente at construction
  advance_calls,    \* direct calls of GameState.advance_scene so far
  fallback_calls,   \* narrate calls served by the local generator so far
  pc,               \* run_cli: "input", "done", "raised"; "lib" outside run_cli
  lines_read,       \* run_cli: the lines input() has returned, in order
  narrated,         \* run_cli: the actions passed to engine.narrate, in order
  stdout            \* run_cli: what the last iteration printed

vars == <<state, client, last, scena_iniziale, advance_calls, fallback_calls,
          pc, lines_read, narrated, stdout>>

cli_vars == <<pc, lines_read, narrated, stdout>>

Lira == [name |-> "Lira", razza |-> "Mezzelfa", classe |-> "Ladra",
         livello |-> 3, punti_ferita |-> 22]

Thamior == [name |-> "Thamior", razza |-> "Elfo", classe |-> "Mago",
            livello |-> 3, punti_ferita |-> 16]

\* prompt_character_creation with every answer left empty
Eroe == [name |-> "Eroe senza nome", razza |-> "Umano", classe |-> "Guerriero",
         livello |-> 1, punti_ferita |-> 20]

\* the sessions the model starts from: location and party
Sessions ==
  { [location |-> "Crypt", party |-> <<>>],
    [location |-> "Crypt", party |-> <<Eroe>>],
    [location |-> "Cripte di Smeraldo", party |-> <<Eroe, Lira>>] }

InitialScenes == {1, 2}

Clients == {None, "OpenAI"}

\* the damage amounts given to apply_damage
Amounts == {0, 10, 25}

NoCall == [op |-> "none", target |-> 0, arg |-> None, before |-> None,
           ret |-> None, raised |-> FALSE, sent |-> <<>>,
           consequence |-> None]

\* GameState(location, party, scena_corrente) and NarrationEngine(client, ...)
Init ==
  /\ \E s \in Sessions, n \in InitialScenes :
       /\ state = [location |-> s.location, party |-> s.party,
                   scena_corrente |-> n]
       /\ scena_iniziale = n
  /\ client \in Clients
  /\ last = NoCall
  /\ advance_calls = 0
  /\ fallback_calls = 0
  /\ pc = "lib"
  /\ lines_read = <<>>
  /\ narrated = <<>>
  /\ stdout = <<>>

\* state.advance_scene()
AdvanceScene ==
  /\ pc = "lib"
  /\ state.scena_corrente < MaxScena
  /\ advance_calls + fallback_calls < MaxScena
  /\ state' = [state EXCEPT !.scena_corrente = advance_scene(@)]
  /\ advance_calls' = advance_calls + 1
  /\ last' = [NoCall EXCEPT !.op = "advance_scene", !.before = state]
  /\ UNCHANGED <<client, scena_iniziale, fallback_calls, cli_vars>>

\* state.party[i].apply_damage(amount)
ApplyDamage ==
  /\ pc = "lib"
  /\ \E i \in 1..Len(state.party), amount \in Amounts :
       /\ state' = [state EXCEPT !.party[i].punti_ferita = apply_damage(@, amount)]
       /\ last' = [NoCall EXCEPT !.op = "apply_damage", !.target = i,
                                 !.arg = amount, !.before = state]
  /\ UNCHANGED <<client, scena_iniziale, advance_calls, fallback_calls, cli_vars>>

\* state.party[i].is_conscious()
IsConscious ==
  /\ pc = "lib"
  /\ \E i \in 1..Len(state.party) :
       last' = [NoCall EXCEPT !.op = "is_conscious", !.target = i,
                              !.before = state,
                              !.ret = is_conscious(state.party[i].punti_ferita)]
  /\ UNCHANGED <<state, client, scena_iniziale, advance_calls, fallback_calls,
                 cli_vars>>

\* state.snapshot()
Snapshot ==
  /\ pc = "lib"
  /\ last' = [NoCall EXCEPT !.op = "snapshot", !.before = state,
                            !.ret = snapshot(state)]
  /\ UNCHANGED <<state, client, scena_iniziale, advance_calls, fallback_calls,
                 cli_vars>>

\* the effect of engine.narrate(action, state) on the session
Narrated(action, consequence, reply) ==
  \E r \in {narrate(client, action, state, consequence, reply)} :
  /\ state' = r.state
  /\ last' = [op |-> "narrate", target |-> 0, arg |-> action, before |-> state,
              ret |-> r.ret, raised |-> r.raised, sent |-> r.sent,
              consequence |-> r.consequence]
  /\ fallback_calls' = IF r.consequence # None THEN fallback_calls + 1
                       ELSE fallback_calls
  /\ UNCHANGED <<client, scena_iniziale, advance_calls>>

\* the environment of a narrate call: the outcome random.choice would draw
\* and the reply the backend would give; the one the engine does not
\* consult is left out of the enumeration
Drawn == IF client = None THEN Consequences ELSE {None}
Answered == IF client = None THEN {None} ELSE Replies

\* engine.narrate(action, state), called directly
Narrate ==
  /\ pc = "lib"
  /\ state.scena_corrente < MaxScena
  /\ advance_calls + fallback_calls < MaxScena
  /\ \E action \in Actions, consequence \in Drawn, reply \in Answered :
       Narrated(action, consequence, reply)
  /\ UNCHANGED cli_vars

Next == AdvanceScene \/ ApplyDamage \/ IsConscious \/ Snapshot \/ Narrate

Spec == Init /\ [][Next]_vars

(***************************************************************************)
(* The program: __main__ builds the party and the engine and runs run_cli. *)
(***************************************************************************)
\* the termination test without lower()
is_termination_cased(action) == action \in {"quit", "exit"}

\* run_cli: action.lower() in {"quit", "exit"}
is_termination(action) == lower(action) \in {"quit", "exit"}

\* run_cli: not action
is_empty(action) == action = ""

\* __main__: the party of three at "Cripte di Smeraldo", scene 1, and an
\* engine with or without a client; run_cli has printed its welcome
InitCli ==
  /\ state = [location |-> "Cripte di Smeraldo",
              party |-> <<Eroe, Lira, Thamior>>, scena_corrente |-> 1]
  /\ scena_iniziale = 1
  /\ client \in Clients
  /\ last = NoCall
  /\ advance_calls = 0
  /\ fallback_calls = 0
  /\ pc = "input"
  /\ lines_read = <<>>
  /\ narrated = <<>>
  /\ stdout = <<"Benvenuto nel tavolo di prova! Digita 'quit' per uscire.\n">>

\* an iteration that reads a termination action: the loop returns
CliQuit ==
  /\ pc = "input"
  /\ Len(lines_read) < MaxLines
  /\ \E raw \in RawLines :
       /\ is_termination(strip(raw))
       /\ lines_read' = Append(lines_read, raw)
  /\ pc' = "done"
  /\ stdout' = <<"Sessione terminata. A presto!">>
  /\ UNCHANGED <<state, client, last, scena_iniziale, advance_calls,
                 fallback_calls, narrated>>

\* an iteration that reads an empty action: the loop continues
CliEmpty ==
  /\ pc = "input"
  /\ Len(lines_read) < MaxLines
  /\ \E raw \in RawLines :
       /\ ~is_termination(strip(raw))
       /\ is_empty(strip(raw))
       /\ lines_read' = Append(lines_read, raw)
  /\ stdout' = <<"Nessuna azione inserita. Riprova.\n">>
  /\ UNCHANGED <<state, client, last, scena_iniziale, advance_calls,
                 fallback_calls, narrated, pc>>

\* an iteration that narrates: narrate, then the narration and the snapshot
\* are printed; an exception of narrate ends run_cli
CliNarrate ==
  /\ pc = "input"
  /\ Len(lines_read) < MaxLines
  /\ \E raw \in RawLines :
       /\ ~is_termination(strip(raw))
       /\ ~is_empty(strip(raw))
       /\ lines_read' = Append(lines_read, raw)
       /\ narrated' = Append(narrated, strip(raw))
       /\ \E consequence \in Drawn, reply \in Answered :
            Narrated(strip(raw), consequence, reply)
  /\ pc' = IF last'.raised THEN "raised" ELSE "input"
  /\ stdout' = IF last'.raised THEN <<>>
               ELSE <<"\n--- Dungeon Master (AI) ---", last'.ret,
                      "\nStato riassunto:", snapshot(state'), "\n">>

\* input() raises EOFError: run_cli ends with the exception
CliEOF ==
  /\ pc = "input"
  /\ pc' = "raised"
  /\ stdout' = <<>>
  /\ UNCHANGED <<state, client, last, scena_iniziale, advance_calls,
                 fallback_calls, lines_read, narrated>>

NextCli == CliQuit \/ CliEmpty \/ CliNarrate \/ CliEOF

SpecCli == InitCli /\ [][NextCli]_vars

(***************************************************************************)
(* The claims of the specification, stated on the model.                   *)
(* In every state, last describes the call just made: its operation, its   *)
(* arguments, the session before it (last.before) and what it returned;    *)
(* state is the session after it.                                          *)
(***************************************************************************)
HP(st, i) == st.party[i].punti_ferita

\* C1: an engine built without a client never sends a request to the
\* backend, whatever the sequence of narrate calls; an engine built with a
\* client never runs the local generator (no outcome is drawn, no local call
\* is counted), and when the backend call fails narrate raises and returns
\* no text
C1_StrategyFixed ==
  /\ client # None => fallback_calls = 0
  /\ last.op = "narrate" =>
       /\ client = None =>
            /\ last.sent = <<>>
            /\ last.consequence \in Consequences
            /\ ~last.raised
       /\ client # None =>
            /\ Len(last.sent) = 1
            /\ last.consequence = None
            /\ last.raised => last.ret = None
            /\ ~last.raised => last.ret \in Replies \ {BackendError}

C1_Witness ==
  /\ client # None
  /\ last.op = "narrate"
  /\ last.raised
  /\ Len(last.sent) = 1

\* C2: every narrate call of an engine without a client adds exactly 1 to
\* the scene counter, whatever the action and the outcome drawn; after k
\* such calls, and no direct advance_scene call, the counter is its initial
\* value plus k
C2_FallbackAdvancesByOne ==
  /\ (last.op = "narrate" /\ client = None) =>
       state.scena_corrente = last.before.scena_corrente + 1
  /\ (client = None /\ advance_calls = 0) =>
       state.scena_corrente = scena_iniziale + fallback_calls

C2_Witness ==
  /\ client = None
  /\ last.op = "narrate"
  /\ last.arg = LongAction
  /\ advance_calls = 0
  /\ fallback_calls = 2

\* C3: a narrate call of an engine with a client leaves the session as it
\* was (scene counter, location, party), whether the backend answers or fails
C3_RemoteLeavesState ==
  (last.op = "narrate" /\ client # None) =>
    /\ state.scena_corrente = last.before.scena_corrente
    /\ state.location = last.before.location
    /\ state.party = last.before.party

C3_Witness ==
  /\ client # None
  /\ last.op = "narrate"
  /\ ~last.raised
  /\ state.party # <<>>
  /\ state.scena_corrente = 2

\* C4: advance_scene adds exactly 1 to the scene counter; the counter is its
\* initial value plus the number of calls that advance it; and no operation
\* (advance_scene, narrate, snapshot, apply_damage, is_conscious) lowers it
C4_SceneCounter ==
  /\ last.op = "advance_scene" =>
       state.scena_corrente = last.before.scena_corrente + 1
  /\ fallback_calls = 0 =>
       state.scena_corrente = scena_iniziale + advance_calls
  /\ last.op # "none" => state.scena_corrente >= last.before.scena_corrente
  /\ state.scena_corrente >= scena_iniziale

C4_Witness ==
  /\ last.op = "advance_scene"
  /\ advance_calls = 2
  /\ fallback_calls = 0
  /\ state.scena_corrente = scena_iniziale + 2

\* C5: apply_damage(d) with d >= 0 on hit points h >= 0 leaves
\* max(h - d, 0), and the hit points of the other members as they were;
\* hit points are never negative
C5_DamageClamped ==
  /\ \A i \in 1..Len(state.party) : HP(state, i) >= 0
  /\ last.op = "apply_damage" =>
       LET h == HP(last.before, last.target)
           d == last.arg
       IN (h >= 0 /\ d >= 0) =>
            /\ HP(state, last.target) = (IF h - d > 0 THEN h - d ELSE 0)
            /\ \A j \in 1..Len(state.party) :
                 j # last.target => HP(state, j) = HP(last.before, j)

C5_Witness ==
  /\ last.op = "apply_damage"
  /\ last.arg = 25
  /\ HP(last.before, last.target) = 10
  /\ HP(state, last.target) = 0

\* C6 as the specification states it: the snapshot of location "Crypt",
\* empty party, scene 1 is "Scene: 1", "Location: Crypt", "Party:",
\* "No members"
C6_EnglishSnapshot ==
  (/\ last.op = "snapshot"
   /\ state.location = "Crypt"
   /\ state.party = <<>>
   /\ state.scena_corrente = 1) =>
    last.ret = "Scene: 1\nLocation: Crypt\nParty:\nNo members"

\* C6, amended: that snapshot is the four lines "Scena: 1", "Luogo: Crypt",
\* "Party:", "Nessun membro", joined by newlines, with no whitespace before
\* or after
C6_ItalianSnapshot ==
  (/\ last.op = "snapshot"
   /\ state.location = "Crypt"
   /\ state.party = <<>>
   /\ state.scena_corrente = 1) =>
    last.ret = "Scena: 1\nLuogo: Crypt\nParty:\nNessun membro"

C6_Witness ==
  /\ last.op = "snapshot"
  /\ state.location = "Crypt"
  /\ state.party = <<>>
  /\ state.scena_corrente = 1

\* C7: is_conscious returns true exactly when the hit points are above 0,
\* for every value apply_damage reaches; no operation removes a member from
\* the party, so a member at 0 hit points is still there
C7_Conscious ==
  /\ last.op = "is_conscious" =>
       /\ HP(state, last.target) > 0 => last.ret = TRUE
       /\ HP(state, last.target) <= 0 => last.ret = FALSE
  /\ last.op # "none" =>
       /\ Len(state.party) = Len(last.before.party)
       /\ \A i \in 1..Len(state.party) :
            state.party[i].name = last.before.party[i].name

C7_Witness ==
  /\ last.op = "is_conscious"
  /\ HP(state, last.target) = 0
  /\ last.ret = FALSE
  /\ Len(state.party) = 2

\* C8: the snapshot of a party of k >= 1 members has 3 + k lines, the scene
\* line, the location line, "Party:", then the members' lines in party
\* order, and no line begins with whitespace
C8_SnapshotLines ==
  (last.op = "snapshot" /\ state.party # <<>>) =>
    LET lines == split(last.ret, "\n")
        k == Len(state.party)
    IN /\ Len(lines) = 3 + k
       /\ \A i \in 1..Len(lines) : lines[i] = "" \/ ~IsSpace(Char(lines[i], 1))
       /\ \A i \in 1..k :
            3 + i <= Len(lines) => lines[3 + i] = party_line(state.party[i])

\* needle in hay
Contains(hay, needle) ==
  \E i \in 1..(Len(hay) - Len(needle) + 1) :
    SubSeq(hay, i, i + Len(needle) - 1) = needle

\* the text with its line breaks read as blanks
unwrap(text) == join(split(text, "\n"), " ")

\* the characters of s that are not whitespace, in order
squeeze(s) ==
  join([i \in 1..Len(s) |-> IF IsSpace(Char(s, i)) THEN "" ELSE Char(s, i)], "")

\* a text of words separated by single blanks: no blank at either end, no
\* other whitespace and no hyphen
PlainText(s) ==
  /\ first_pos(s, (Whitespace \ {" "}) \cup {"-"}, TRUE, 1, Len(s)) = 0
  /\ ~Contains(s, "  ")
  /\ s = strip(s)

\* every word of s has room on a line of the wrapping
Fits(s) == \A i \in 1..Len(split(s, " ")) : Len(split(s, " ")[i]) <= FillWidth

\* the paragraph a local narrate call is to return, wrapped: around the
\* action passed, the scene counter after the call, the outcome drawn and
\* the location
Paragraph ==
  "Mentre reagite a '" \o last.arg \o "', la scena "
    \o str(state.scena_corrente) \o " si apre: " \o last.consequence
    \o ". Il party resta a " \o state.location
    \o ", ma l'atmosfera cambia e vi prepara alla prossima scelta."

\* C9 as the specification states it: the text a local narrate call returns
\* contains the action as typed, the location, an outcome of the table and
\* the scene number after the increment
C9_VerbatimEmbedding ==
  (last.op = "narrate" /\ client = None) =>
    /\ Contains(last.ret, last.arg)
    /\ Contains(last.ret, state.location)
    /\ \E i \in 1..Len(outcomes) : Contains(last.ret, outcomes[i])
    /\ Contains(last.ret, str(last.before.scena_corrente + 1))
    /\ state.scena_corrente = last.before.scena_corrente + 1

\* C9, amended: a local narrate call advances the counter by one and draws
\* one of the five outcomes of the table, and for every action and
\* location the text returned has the non-whitespace characters of the
\* paragraph around the action, the scene number after the increment (the
\* counter after the call, never the one before), the outcome drawn and
\* the location, in the same order.  When the number has at most 88
\* digits, the text with its line breaks read as blanks contains
\* "la scena <n> si apre: <outcome>. Il party resta a ".  When moreover the
\* action and the location are plain texts whose words, with the quotes
\* and commas the paragraph attaches to them, fit on a line, the text with
\* its line breaks read as blanks is the paragraph
C9_EmbeddingUpToWrapping ==
  (last.op = "narrate" /\ client = None) =>
    /\ state.scena_corrente = last.before.scena_corrente + 1
    /\ Len(outcomes) = 5
    /\ \E i \in 1..Len(outcomes) : last.consequence = outcomes[i]
    /\ squeeze(last.ret) = squeeze(Paragraph)
    /\ Len(str(state.scena_corrente)) <= FillWidth =>
         \E u \in {unwrap(last.ret)} :
           /\ Contains(u, "la scena " \o str(state.scena_corrente)
                            \o " si apre: " \o last.consequence
                            \o ". Il party resta a ")
           /\ (/\ PlainText(last.arg)
               /\ PlainText(state.location)
               /\ Fits("'" \o last.arg \o "',")
               /\ Fits(state.location \o ",")) => u = Paragraph

C9_Witness ==
  /\ last.op = "narrate"
  /\ client = None
  /\ last.arg = LongAction
  /\ ~Contains(last.ret, LongAction)
  /\ last.before.scena_corrente = 2

\* what run_cli is to do with each line of RawLines
TerminationLines == {"quit", " Exit \r"}
EmptyLines == {"", BlankLine}
Trimmed(raw) == IF raw = " cerca " THEN "cerca" ELSE raw

\* the actions run_cli is to narrate for the lines read, in order
RECURSIVE Expected(_)
Expected(lines) ==
  IF lines = <<>> THEN <<>>
  ELSE IF Head(lines) \in TerminationLines \cup EmptyLines
       THEN Expected(Tail(lines))
  ELSE <<Trimmed(Head(lines))>> \o Expected(Tail(lines))

\* C10: run_cli never passes narrate an empty action or a termination
\* action; it passes it every other line read, trimmed, once and in input
\* order; it reads nothing after the first termination action and ends
\* there; and with an engine without a client the scene counter at the end
\* is its initial value plus the number of narrated lines
C10_ReadLoop ==
  /\ narrated = Expected(lines_read)
  /\ \A i \in 1..Len(narrated) :
       narrated[i] \notin {"", "quit", "exit", "Quit", "Exit", "QUIT", "EXIT"}
  /\ \A i \in 1..Len(lines_read) :
       lines_read[i] \in TerminationLines => (i = Len(lines_read) /\ pc = "done")
  /\ pc = "done" =>
       /\ lines_read # <<>>
       /\ lines_read[Len(lines_read)] \in TerminationLines
  /\ (pc = "done" /\ client = None) =>
       state.scena_corrente = scena_iniziale + Len(narrated)
  /\ client = None => fallback_calls = Len(narrated)

C10_Witness ==
  /\ pc = "done"
  /\ client = None
  /\ lines_read = <<BlankLine, " cerca ", " Exit \r">>
  /\ narrated = <<"cerca">>
  /\ state.scena_corrente = 2

====
